---- MODULE Spec2Model ----
(***************************************************************************)
(* Model of the papyrus-lang sources:                                      *)
(*   - the green syntax node FunctionHeaderSyntax (constructor, Kind,      *)
(*     CreateRed, both Accept forms, the slot getters, ChildrenInternal);  *)
(*   - PapyrusDebugAdapterDescriptorFactory (ensureReadyFlow and           *)
(*     createDebugAdapterDescriptor).                                      *)
(* The GreenNode base class, the tokens, the visitor interfaces and the    *)
(* red nodes are not part of the sources at hand; what the model needs of  *)
(* them follows the written specification and is marked as such.           *)
(***************************************************************************)
EXTENDS Integers, Sequences, FiniteSets, TLC

\* ---------------------------------------------------------------- bounds
\* Largest width of a type identifier, a name expression or a parameter.
MaxWidth == 2
\* Largest number of entries of the parameter list.
MaxParams == 2
\* Largest absolute position handed to CreateRed.
MaxPos == 2
\* Largest number of start() calls, and of stop() and dispose() calls, on the client.
MaxClientCalls == 3

VARIABLES
    paramList,   \* contents of the list object the creator passes as `parameters`
    header,      \* the FunctionHeaderSyntax instance, or NotConstructed
    cachedWidth, \* the width GreenNode caches for the instance
    lastOp,      \* the operation that ran last
    args,        \* the arguments of that operation
    threw,       \* the exception it ended with, or "none"
    ret,         \* the value it returned
    visitor,     \* the visitor handed to the last Accept: its call trace, its results
    dbg,         \* the last createDebugAdapterDescriptor call: inputs and outcome
    rip,         \* the last resolveInstallPath call: inputs and outcome
    lc           \* the PapyrusLanguageClient: its LanguageClient, its watcher, its calls

vars == <<paramList, header, cachedWidth, lastOp, args, threw, ret, visitor, dbg, rip, lc>>
syntaxVars == <<paramList, header, cachedWidth, lastOp, args, threw, ret, visitor>>

\* ------------------------------------------------------------ green nodes
\* The C# null reference.
Null == [kind |-> "Null"]

\* No instance has been constructed yet.
NotConstructed == [kind |-> "NotConstructed"]

\* A node or token that is present in source, w characters wide.
Present(kind, w) == [kind |-> kind, width |-> w, missing |-> FALSE, diagnostic |-> FALSE]

\* A token the parser expected and did not find: zero width, carries a diagnostic.
MissingToken(kind) == [kind |-> kind, width |-> 0, missing |-> TRUE, diagnostic |-> TRUE]

\* The width of a child; an absent (null) child covers no text.
FullWidth(n) == IF n = Null THEN 0 ELSE n.width

\* The one list object of the creator, as the reference the constructor receives.
ParamListRef == "paramList"

\* The entries an IReadOnlyList reference yields when it is enumerated now.
Items(ref) == IF ref = ParamListRef THEN paramList ELSE << >>

\* What the parser can supply for each slot.
TypeIdentifiers == {Null} \cup {Present("TypeIdentifier", w) : w \in 1..MaxWidth}
Keywords == {Present("FunctionKeyword", 8), Present("EventKeyword", 5)}
Identifiers == {Present("IdentifierExpression", w) : w \in 1..MaxWidth}
OpenParens == {Present("OpenParenToken", 1), MissingToken("OpenParenToken")}
CloseParens == {Present("CloseParenToken", 1), MissingToken("CloseParenToken")}
FunctionParameters == {Present("FunctionParameter", w) : w \in 1..MaxWidth}

RECURSIVE SumWidths(_)
SumWidths(s) == IF s = << >> THEN 0 ELSE FullWidth(Head(s)) + SumWidths(Tail(s))

\* Mutant: a constructor that insists on a return type.
FunctionHeaderSyntax_RequiresType(typeIdentifier, functionorEventKeyword, identifier, openParen, parameters, closeParen) ==
    IF typeIdentifier = Null
        THEN [threw |-> "ArgumentNullException", node |-> Null]
        ELSE [threw |-> "none",
              node  |-> [kind                   |-> "FunctionHeaderSyntax",
                         TypeIdentifier         |-> typeIdentifier,
                         FunctionOrEventKeyword |-> functionorEventKeyword,
                         Identifier             |-> identifier,
                         OpenParen              |-> openParen,
                         Parameters             |-> parameters,
                         CloseParen             |-> closeParen]]

\* new FunctionHeaderSyntax(...): six assignments, no check, no copy.
FunctionHeaderSyntax(typeIdentifier, functionorEventKeyword, identifier, openParen, parameters, closeParen) ==
    [threw |-> "none",
     node  |-> [kind                   |-> "FunctionHeaderSyntax",
                TypeIdentifier         |-> typeIdentifier,
                FunctionOrEventKeyword |-> functionorEventKeyword,
                Identifier             |-> identifier,
                OpenParen              |-> openParen,
                Parameters             |-> parameters,
                CloseParen             |-> closeParen]]

\* Mutant: a kind derived from the keyword slot.
Kind_FromKeyword(n) ==
    IF n.FunctionOrEventKeyword.kind = "EventKeyword" THEN "EventHeader" ELSE "FunctionHeader"

\* public override SyntaxKind Kind => SyntaxKind.FunctionHeader
Kind(n) == "FunctionHeader"

\* CreateRed(parent, position): throw new NotImplementedException()
CreateRed(n, parent, position) == [threw |-> "NotImplementedException", node |-> Null]

\* Mutant: the close paren yielded before the parameters.
ChildrenInternal_CloseParenFirst(n) ==
    << n.TypeIdentifier, n.FunctionOrEventKeyword, n.Identifier, n.OpenParen, n.CloseParen >>
        \o Items(n.Parameters)

\* The children in the order the iterator yields them.
ChildrenInternal(n) ==
    << n.TypeIdentifier, n.FunctionOrEventKeyword, n.Identifier, n.OpenParen >>
        \o Items(n.Parameters) \o << n.CloseParen >>

\* GreenNode's width: the sum of the widths of the children.
ComputeWidth(n) == SumWidths(ChildrenInternal(n))

\* ---------------------------------------------------------------- visitors
\* The handlers of IGreenNodeVisitor / IGreenNodeVisitor<T>, one per node class.
Handlers == {"Visit(FunctionHeaderSyntax)", "Visit(FunctionParameterSyntax)"}
RetVals == {"r1", "r2"}

\* A visitor that has not been called: what each handler returns is its own affair.
Visitors == {[calls |-> << >>, results |-> res] : res \in [Handlers -> RetVals]}

\* One handler invocation: the visitor records the handler and the node it was given.
Visit(v, handler, node) ==
    [v EXCEPT !.calls = Append(@, [handler |-> handler, node |-> node])]

\* void Accept(IGreenNodeVisitor visitor) { visitor.Visit(this); }
Accept(n, v) == Visit(v, "Visit(FunctionHeaderSyntax)", n)

\* Mutant: the generic form resolved to another class's handler.
AcceptT_OtherHandler(n, v) ==
    [visitor |-> Visit(v, "Visit(FunctionParameterSyntax)", n),
     value   |-> v.results["Visit(FunctionParameterSyntax)"]]

\* T Accept<T>(IGreenNodeVisitor<T> visitor) { return visitor.Visit(this); }
AcceptT(n, v) ==
    [visitor |-> Visit(v, "Visit(FunctionHeaderSyntax)", n),
     value   |-> v.results["Visit(FunctionHeaderSyntax)"]]

\* --------------------------------------------------------------- red nodes
\* A red node: the green node it wraps, its red parent (or Null), its position.
RedNode(green, parent, position) == [green |-> green, parent |-> parent, position |-> position]

\* The parents a caller may hand to CreateRed: none, or the red root of a tree.
RedParents == {Null, RedNode(Present("FunctionDefinition", MaxWidth), Null, 0)}

\* CreateRed of the child classes (type identifier, expression, parameter, token).
CreateRedChild(child, parent, position) ==
    [threw |-> "none", node |-> RedNode(child, parent, position)]

\* The sum of the widths of the children before the i-th.
PrecedingWidth(children, i) == SumWidths(SubSeq(children, 1, i - 1))

\* A red node's children: walk the green children in order, accumulating widths.
RedChildren(red, children) ==
    [i \in 1..Len(children) |->
        CreateRedChild(children[i], red, red.position + PrecedingWidth(children, i)).node]

\* ------------------------------------------------------------------ actions
Constructed == header # NotConstructed

\* The creator adds a parameter to its list object.
ParserAddParameter ==
    /\ Len(paramList) < MaxParams
    /\ \E p \in FunctionParameters :
          /\ paramList' = Append(paramList, p)
          /\ args' = [parameter |-> p]
    /\ lastOp' = "List.Add"
    /\ threw' = "none"
    /\ ret' = Null
    /\ UNCHANGED <<header, cachedWidth, visitor, dbg, rip, lc>>

\* The creator constructs the header from the slots it parsed and its list object.
Construct ==
    /\ ~Constructed
    /\ \E t \in TypeIdentifiers, k \in Keywords, id \in Identifiers,
          o \in OpenParens, c \in CloseParens :
          LET r == FunctionHeaderSyntax(t, k, id, o, ParamListRef, c) IN
          /\ args' = [typeIdentifier |-> t, functionorEventKeyword |-> k, identifier |-> id,
                      openParen |-> o, parameters |-> ParamListRef, closeParen |-> c]
          /\ threw' = r.threw
          /\ ret' = r.node
          /\ header' = IF r.threw = "none" THEN r.node ELSE header
          /\ cachedWidth' = IF r.threw = "none" THEN ComputeWidth(r.node) ELSE cachedWidth
    /\ lastOp' = "ctor"
    /\ UNCHANGED <<paramList, visitor, dbg, rip, lc>>

GetKind ==
    /\ Constructed
    /\ lastOp' = "Kind"
    /\ args' = << >>
    /\ threw' = "none"
    /\ ret' = Kind(header)
    /\ UNCHANGED <<paramList, header, cachedWidth, visitor, dbg, rip, lc>>

EnumerateChildren ==
    /\ Constructed
    /\ lastOp' = "Children"
    /\ args' = << >>
    /\ threw' = "none"
    /\ ret' = ChildrenInternal(header)
    /\ UNCHANGED <<paramList, header, cachedWidth, visitor, dbg, rip, lc>>

DoAccept ==
    /\ Constructed
    /\ \E v \in Visitors :
          /\ args' = [visitor |-> v]
          /\ visitor' = Accept(header, v)
    /\ lastOp' = "Accept"
    /\ threw' = "none"
    /\ ret' = Null
    /\ UNCHANGED <<paramList, header, cachedWidth, dbg, rip, lc>>

DoAcceptT ==
    /\ Constructed
    /\ \E v \in Visitors :
          LET r == AcceptT(header, v) IN
          /\ args' = [visitor |-> v]
          /\ visitor' = r.visitor
          /\ ret' = r.value
    /\ lastOp' = "AcceptT"
    /\ threw' = "none"
    /\ UNCHANGED <<paramList, header, cachedWidth, dbg, rip, lc>>

DoCreateRed ==
    /\ Constructed
    /\ \E parent \in RedParents, position \in 0..MaxPos :
          LET r == CreateRed(header, parent, position) IN
          /\ args' = [parent |-> parent, position |-> position]
          /\ threw' = r.threw
          /\ ret' = r.node
    /\ lastOp' = "CreateRed"
    /\ UNCHANGED <<paramList, header, cachedWidth, visitor, dbg, rip, lc>>

\* Walk down from a root red node over the header: the root at position 0 with no
\* parent, then its red children.
WalkRed ==
    /\ Constructed
    /\ LET root == CreateRed(header, Null, 0) IN
          /\ threw' = root.threw
          /\ ret' = IF root.threw = "none"
                       THEN RedChildren(root.node, ChildrenInternal(header))
                       ELSE << >>
    /\ lastOp' = "WalkRed"
    /\ args' = << >>
    /\ UNCHANGED <<paramList, header, cachedWidth, visitor, dbg, rip, lc>>

SyntaxNext ==
    \/ ParserAddParameter
    \/ Construct
    \/ GetKind
    \/ EnumerateChildren
    \/ DoAccept
    \/ DoAcceptT
    \/ DoCreateRed
    \/ WalkRed

\* new PapyrusLanguageClient(options): a LanguageClient not yet started, a watcher.
NewPapyrusLanguageClient ==
    [state             |-> "Initial", \* the LanguageClient's state
     startCount        |-> 0,         \* times _client.start() was invoked
     stopCount         |-> 0,         \* times _client.stop() was invoked
     startCalls        |-> 0,         \* calls of start()
     stopCalls         |-> 0,         \* calls of stop() and dispose()
     startCompleted    |-> FALSE,     \* some start() call has completed
     stoppedSince      |-> FALSE,     \* the client was stopped since it did
     fsWatcherDisposed |-> FALSE]

NoVisitor == [calls |-> << >>, results |-> [h \in Handlers |-> "r1"]]

Init ==
    /\ paramList = << >>
    /\ header = NotConstructed
    /\ cachedWidth = 0
    /\ lastOp = "none"
    /\ args = << >>
    /\ threw = "none"
    /\ ret = Null
    /\ visitor = NoVisitor
    /\ dbg = Null
    /\ rip = Null
    /\ lc = NewPapyrusLanguageClient

SpecSyntax == Init /\ [][SyntaxNext]_vars

\* ------------------------------------------------------ debug adapter factory
PapyrusGames == {"fallout4", "skyrim", "skyrimSpecialEdition"}

\* DebugSupportInstallState: the four states the switch names, and one it does not.
InstallStates == {"incorrectVersion", "notInstalled", "gameDisabled", "gameMissing", "installed"}

\* What the three prompts can resolve to ("undefined": the prompt was dismissed).
UpdateOptions == {"Update", "Remind Me Later", "Cancel", "undefined"}
InstallOptions == {"getExtenderOption", "installOption", "Cancel", "undefined"}
GameRunningOptions == {"Continue", "Cancel", "undefined"}

\* const noopExecutable = new DebugAdapterExecutable('node', ['-e', '""'])
noopExecutable == [command |-> <<"node", "-e">>, port |-> 0]

\* getDefaultPortForGame
getDefaultPortForGame(game) == IF game = "fallout4" THEN 2077 ELSE 43201

\* getToolGameName
getToolGameName(game) == IF game = "fallout4" THEN "Fallout4" ELSE "Skyrim"

\* getDebugToolPath
getDebugToolPath(game) == <<"DarkId.Papyrus.DebugAdapterProxy", getToolGameName(game)>>

\* Everything a call reads from its environment: the install state, the config,
\* the answers the user gives to the prompts if they are shown, the process list,
\* the creation kit info.
DebugInputs ==
    [installState              : InstallStates,
     ignoreDebuggerVersion     : BOOLEAN,
     selectedUpdateOption      : UpdateOptions,
     selectedInstallOption     : InstallOptions,
     gameIsRunning             : BOOLEAN,
     selectedGameRunningOption : GameRunningOptions,
     resolvedInstallPath       : BOOLEAN]

\* The tail of ensureReadyFlow, after the switch: the game-running check.
ensureGameRunning(in, effects) ==
    IF ~in.gameIsRunning
        THEN [ready   |-> in.selectedGameRunningOption = "Continue",
              effects |-> Append(effects, "showWarningMessage:gameRunning")]
        ELSE [ready |-> TRUE, effects |-> effects]

\* Mutant: a dismissed update prompt is not treated as Cancel.
ensureReadyFlow_DismissContinues(game, in) ==
    CASE in.installState = "incorrectVersion" ->
            IF in.ignoreDebuggerVersion
                THEN ensureGameRunning(in, << >>)
            ELSE IF in.selectedUpdateOption = "Update"
                THEN [ready   |-> FALSE,
                      effects |-> <<"showWarningMessage:update", "executeCommand:installDebuggerSupport">>]
            ELSE IF in.selectedUpdateOption = "Cancel"
                THEN [ready |-> FALSE, effects |-> <<"showWarningMessage:update">>]
            ELSE ensureGameRunning(in, <<"showWarningMessage:update">>)
      [] in.installState \in {"notInstalled", "gameDisabled", "gameMissing"} ->
            [ready |-> FALSE, effects |-> << >>]
      [] OTHER -> ensureGameRunning(in, << >>)

\* ensureReadyFlow(game): whether the session may start, and what it did on the way.
ensureReadyFlow(game, in) ==
    CASE in.installState = "incorrectVersion" ->
            IF in.ignoreDebuggerVersion
                THEN ensureGameRunning(in, << >>)
            ELSE IF in.selectedUpdateOption = "Update"
                THEN [ready   |-> FALSE,
                      effects |-> <<"showWarningMessage:update", "executeCommand:installDebuggerSupport">>]
            ELSE IF in.selectedUpdateOption = "Cancel" \/ in.selectedUpdateOption = "undefined"
                THEN [ready |-> FALSE, effects |-> <<"showWarningMessage:update">>]
            ELSE ensureGameRunning(in, <<"showWarningMessage:update">>)
      [] in.installState = "notInstalled" ->
            [ready   |-> FALSE,
             effects |-> <<"showInformationMessage:install">> \o
                 (CASE in.selectedInstallOption = "installOption" ->
                           <<"executeCommand:installDebuggerSupport">>
                    [] in.selectedInstallOption = "getExtenderOption" ->
                           <<"openExternal:scriptExtenderUrl">>
                    [] OTHER -> << >>)]
      [] in.installState = "gameDisabled" ->
            [ready |-> FALSE, effects |-> <<"showGameDisabledMessage">>]
      [] in.installState = "gameMissing" ->
            [ready |-> FALSE, effects |-> <<"showGameMissingMessage">>]
      [] OTHER -> ensureGameRunning(in, << >>)

\* createDebugAdapterDescriptor(session, _executable)
createDebugAdapterDescriptor(session, in) ==
    IF session.game # "fallout4" /\ session.game # "skyrimSpecialEdition"
        THEN [threw |-> "Error: not supported by the Papyrus debugger", descriptor |-> Null,
              session |-> session, effects |-> << >>]
    ELSE LET flow == ensureReadyFlow(session.game, in) IN
         IF ~flow.ready
             THEN [threw |-> "none", descriptor |-> noopExecutable,
                   session |-> [session EXCEPT !.noop = TRUE], effects |-> flow.effects]
         ELSE IF ~in.resolvedInstallPath
             THEN [threw |-> "Error: Creation Kit install path is not configured",
                   descriptor |-> Null, session |-> session, effects |-> flow.effects]
         ELSE [threw |-> "none",
               descriptor |-> [command |-> getDebugToolPath(session.game),
                               port    |-> IF session.port # 0 THEN session.port
                                           ELSE getDefaultPortForGame(session.game)],
               session |-> session,
               effects |-> Append(flow.effects, "outputChannel.appendLine")]

\* The sessions the editor can hand over (port 0: no port configured).
Sessions == [game : PapyrusGames, port : {0, 1}, noop : BOOLEAN]

\* One call of createDebugAdapterDescriptor, from the sessions and environments above.
\* A call reads nothing an earlier call wrote except session.noop, which Sessions
\* covers, so a behaviour follows a single call.
CreateDebugAdapterDescriptor ==
    /\ dbg = Null
    /\ \E session \in Sessions, in \in DebugInputs :
          dbg' = [session0 |-> session, in |-> in,
                  out |-> createDebugAdapterDescriptor(session, in)]
    /\ UNCHANGED <<syntaxVars, rip, lc>>

DebugNext == CreateDebugAdapterDescriptor

SpecDebug == Init /\ [][DebugNext]_vars

\* ------------------------------------------------------- install path
\* The paths a configuration or the registry can name.
Paths == {"C:/Games/A", "C:/Games/B"}

\* context.asAbsolutePath('../../dependencies/compilers')
DevelopmentCompilersPath == "<extension>/../../dependencies/compilers"

\* What reg.get('installed path') ends with: an error, or an item with a value.
RegistryOutcomes == {[error |-> TRUE, value |-> ""]} \cup {[error |-> FALSE, value |-> p] : p \in Paths}

\* Everything a call reads: the game, the configured path, the disk, the registry,
\* the environment.
InstallPathInputs ==
    [game            : PapyrusGames,
     installPath     : Paths,
     disk            : SUBSET Paths,
     registry        : RegistryOutcomes,
     inDevelopmentEnvironment : BOOLEAN]

\* promisify(fs.exists)
exists(in, path) == path \in in.disk

\* Mutant: the registry asked before the configured path.
resolveInstallPath_RegistryFirst(in) ==
    IF ~in.registry.error /\ exists(in, in.registry.value)
        THEN [threw |-> "none", value |-> in.registry.value, registryRead |-> TRUE]
    ELSE IF exists(in, in.installPath)
        THEN [threw |-> "none", value |-> in.installPath, registryRead |-> TRUE]
    ELSE IF in.inDevelopmentEnvironment /\ in.game # "skyrim"
        THEN [threw |-> "none", value |-> DevelopmentCompilersPath, registryRead |-> TRUE]
    ELSE [threw |-> "none", value |-> "null", registryRead |-> TRUE]

\* Mutant: the registry read outside the try block.
resolveInstallPath_NoCatch(in) ==
    IF exists(in, in.installPath)
        THEN [threw |-> "none", value |-> in.installPath, registryRead |-> FALSE]
    ELSE IF in.registry.error
        THEN [threw |-> "registry error", value |-> "null", registryRead |-> TRUE]
    ELSE IF exists(in, in.registry.value)
        THEN [threw |-> "none", value |-> in.registry.value, registryRead |-> TRUE]
    ELSE IF in.inDevelopmentEnvironment /\ in.game # "skyrim"
        THEN [threw |-> "none", value |-> DevelopmentCompilersPath, registryRead |-> TRUE]
    ELSE [threw |-> "none", value |-> "null", registryRead |-> TRUE]

\* resolveInstallPath(game, installPath, context); value "null" is the null result.
resolveInstallPath(in) ==
    IF exists(in, in.installPath)
        THEN [threw |-> "none", value |-> in.installPath, registryRead |-> FALSE]
    ELSE LET \* try { item = await reg.get(...); if (await exists(item.value)) return }
             \* catch (_) { }
             fromRegistry == ~in.registry.error /\ exists(in, in.registry.value)
         IN
         IF fromRegistry
             THEN [threw |-> "none", value |-> in.registry.value, registryRead |-> TRUE]
         ELSE IF in.inDevelopmentEnvironment /\ in.game # "skyrim"
             THEN [threw |-> "none", value |-> DevelopmentCompilersPath, registryRead |-> TRUE]
         ELSE [threw |-> "none", value |-> "null", registryRead |-> TRUE]

\* PathResolver.getInstallPath(game): the configured path of the game, resolved.
getInstallPath(in) == resolveInstallPath(in)

\* One call of getInstallPath; a call keeps no state, so a behaviour follows one.
GetInstallPath ==
    /\ rip = Null
    /\ \E in \in InstallPathInputs :
          rip' = [in |-> in, out |-> getInstallPath(in)]
    /\ UNCHANGED <<syntaxVars, dbg, lc>>

InstallPathNext == GetInstallPath

SpecInstallPath == Init /\ [][InstallPathNext]_vars

\* ------------------------------------------------------- language client
\* LanguageClient.needsStart(): not started yet, or stopping, or stopped.
needsStart(c) == c.state \in {"Initial", "Stopping", "Stopped"}

\* LanguageClient.needsStop(): starting or running.
needsStop(c) == c.state \in {"Starting", "Running"}

\* this._client.start()
clientStart(c) == [c EXCEPT !.state = "Starting", !.startCount = @ + 1]

\* this._client.stop()
clientStop(c) == [c EXCEPT !.state = "Stopping", !.stopCount = @ + 1, !.stoppedSince = TRUE]

\* A start() call completes.
completeStart(c) == [c EXCEPT !.startCompleted = TRUE, !.stoppedSince = FALSE]

\* Mutant: start() without the needsStart() guard.
start_Unguarded(c) == clientStart(c)

\* start(), up to its await: starts the client if it needs it, else returns at once.
start(c) == IF needsStart(c) THEN clientStart(c) ELSE completeStart(c)

\* stop(), up to its await.
stop(c) == IF needsStop(c) THEN clientStop(c) ELSE c

\* dispose(): this.stop(), not awaited; this._fsWatcher.dispose().
dispose(c) == [stop(c) EXCEPT !.fsWatcherDisposed = TRUE]

CallStart ==
    /\ lc.startCalls < MaxClientCalls
    /\ lc' = start([lc EXCEPT !.startCalls = @ + 1])
    /\ UNCHANGED <<syntaxVars, dbg, rip>>

\* await this._client.onReady() resolves: the pending start() completes.
OnReady ==
    /\ lc.state = "Starting"
    /\ lc' = completeStart([lc EXCEPT !.state = "Running"])
    /\ UNCHANGED <<syntaxVars, dbg, rip>>

\* await this._client.onReady() rejects: the pending start() completes with the error.
OnStartFailed ==
    /\ lc.state = "Starting"
    /\ lc' = completeStart([lc EXCEPT !.state = "StartFailed"])
    /\ UNCHANGED <<syntaxVars, dbg, rip>>

CallStop ==
    /\ lc.stopCalls < MaxClientCalls
    /\ lc' = stop([lc EXCEPT !.stopCalls = @ + 1])
    /\ UNCHANGED <<syntaxVars, dbg, rip>>

\* await this._client.stop() resolves.
OnStopped ==
    /\ lc.state = "Stopping"
    /\ lc' = [lc EXCEPT !.state = "Stopped"]
    /\ UNCHANGED <<syntaxVars, dbg, rip>>

CallDispose ==
    /\ lc.stopCalls < MaxClientCalls
    /\ lc' = dispose([lc EXCEPT !.stopCalls = @ + 1])
    /\ UNCHANGED <<syntaxVars, dbg, rip>>

\* The server connection closes and the LanguageClient does not restart it.
OnConnectionClosed ==
    /\ lc.state = "Running"
    /\ lc' = [lc EXCEPT !.state = "Stopped", !.stoppedSince = TRUE]
    /\ UNCHANGED <<syntaxVars, dbg, rip>>

ClientNext ==
    \/ CallStart
    \/ OnReady
    \/ OnStartFailed
    \/ CallStop
    \/ OnStopped
    \/ CallDispose
    \/ OnConnectionClosed

SpecClient == Init /\ [][ClientNext]_vars

\* ------------------------------------------------------------------ claims
\* The entry the FunctionHeader handler records when it is given the instance.
HeaderVisit == [handler |-> "Visit(FunctionHeaderSyntax)", node |-> header]

\* C1: CreateRed(parent, position) on a function header completes and returns a red
\* node that wraps the same green node, with the given parent and position.
C1_CreateRedReturnsRed ==
    lastOp = "CreateRed" =>
        /\ threw = "none"
        /\ ret = RedNode(header, args.parent, args.position)

\* C2: the children of a function header are, in this order and with nothing in
\* between, the return type, the keyword, the name, the open paren, every parameter
\* in list order, the close paren: 5 + (number of parameters) entries.
C2_ChildrenInLexicalOrder ==
    lastOp = "Children" =>
        LET n == Len(Items(header.Parameters)) IN
        /\ Len(ret) = 5 + n
        /\ ret[1] = header.TypeIdentifier
        /\ ret[2] = header.FunctionOrEventKeyword
        /\ ret[3] = header.Identifier
        /\ ret[4] = header.OpenParen
        /\ \A i \in 1..n : ret[4 + i] = Items(header.Parameters)[i]
        /\ ret[5 + n] = header.CloseParen

C2_Witness ==
    /\ lastOp = "Children"
    /\ Len(paramList) = 2
    /\ paramList[1] # paramList[2]
    /\ header.OpenParen # header.CloseParen

\* C3: no entry of the child sequence of a function header is ever absent (null).
C3_NoAbsentChild ==
    lastOp = "Children" => \A i \in 1..Len(ret) : ret[i] # Null

\* C4: the cached width of a function header equals the sum of the widths of the
\* children it enumerates, whenever it is re-derived.
C4_WidthIsSumOfChildren ==
    Constructed => cachedWidth = SumWidths(ChildrenInternal(header))

\* C5: Accept(visitor) and Accept<T>(visitor) each invoke one handler once, the
\* FunctionHeader handler, with the node itself; Accept<T> returns what it returned.
C5_AcceptDispatch ==
    /\ lastOp = "Accept" =>
          /\ visitor.calls = Append(args.visitor.calls, HeaderVisit)
          /\ visitor.results = args.visitor.results
    /\ lastOp = "AcceptT" =>
          /\ visitor.calls = Append(args.visitor.calls, HeaderVisit)
          /\ visitor.results = args.visitor.results
          /\ ret = args.visitor.results["Visit(FunctionHeaderSyntax)"]

C5_Witness ==
    /\ lastOp = "AcceptT"
    /\ ret = "r2"
    /\ args.visitor.results["Visit(FunctionParameterSyntax)"] = "r1"
    /\ Len(visitor.calls) = 1

\* C6: constructing a function header never fails, whatever slot values the parser
\* supplies; the instance carries them, diagnostics included, as given.
C6_ConstructionTotal ==
    lastOp = "ctor" =>
        /\ threw = "none"
        /\ Constructed
        /\ header.TypeIdentifier = args.typeIdentifier
        /\ header.FunctionOrEventKeyword = args.functionorEventKeyword
        /\ header.Identifier = args.identifier
        /\ header.OpenParen = args.openParen
        /\ header.Parameters = args.parameters
        /\ header.CloseParen = args.closeParen

C6_Witness ==
    /\ lastOp = "ctor"
    /\ Constructed
    /\ header.TypeIdentifier = Null
    /\ Items(header.Parameters) = << >>
    /\ header.CloseParen.missing
    /\ header.CloseParen.diagnostic

\* C7: once a function header is constructed, no step changes its slots or the
\* child sequence it enumerates.
C7_NeverMutated ==
    [][Constructed =>
          /\ header' = header
          /\ ChildrenInternal(header)' = ChildrenInternal(header)]_vars

\* C8: a function header reports the kind FunctionHeader at every point after
\* construction, whatever its slots hold and whatever ran on it.
C8_KindIsFunctionHeader ==
    /\ Constructed => Kind(header) = "FunctionHeader"
    /\ lastOp = "Kind" => ret = "FunctionHeader"

C8_Witness ==
    /\ lastOp = "Kind"
    /\ header.FunctionOrEventKeyword.kind = "EventKeyword"
    /\ header.TypeIdentifier = Null
    /\ Len(paramList) = MaxParams

DebugReady(in) ==
    /\ in.installState \notin {"notInstalled", "gameDisabled", "gameMissing"}
    /\ in.installState = "incorrectVersion" =>
          in.ignoreDebuggerVersion \/ in.selectedUpdateOption = "Remind Me Later"
    /\ in.gameIsRunning \/ in.selectedGameRunningOption = "Continue"

\* C10: for fallout4 and skyrimSpecialEdition, createDebugAdapterDescriptor returns
\* the real debug tool only if the install state, the version prompt and the
\* game-running prompt allow it; otherwise it sets session.configuration.noop and
\* returns the no-op executable.
C10_NoopUnlessReady ==
    (dbg # Null /\ dbg.session0.game \in {"fallout4", "skyrimSpecialEdition"}) =>
        /\ (dbg.out.threw = "none" /\ dbg.out.descriptor # noopExecutable) =>
              /\ DebugReady(dbg.in)
              /\ dbg.out.descriptor.command = getDebugToolPath(dbg.session0.game)
        /\ ~DebugReady(dbg.in) =>
              /\ dbg.out.threw = "none"
              /\ dbg.out.session.noop = TRUE
              /\ dbg.out.descriptor = noopExecutable

C10_Witness ==
    /\ dbg # Null
    /\ dbg.session0.game = "skyrimSpecialEdition"
    /\ dbg.in.installState = "incorrectVersion"
    /\ ~dbg.in.ignoreDebuggerVersion
    /\ dbg.in.selectedUpdateOption = "Remind Me Later"
    /\ ~dbg.in.gameIsRunning
    /\ dbg.in.selectedGameRunningOption = "Continue"
    /\ dbg.out.threw = "none"
    /\ ~dbg.out.session.noop
    /\ dbg.out.descriptor.command = getDebugToolPath("skyrimSpecialEdition")

\* C11: resolveInstallPath returns the first source that applies, in this order:
\* the configured path if it exists on disk (the registry is then not read), the
\* registry value if it exists on disk, the development compilers path in the
\* development environment unless the game is skyrim, else null; a registry error
\* counts as "not found" and never reaches the caller.
C11_FirstSourceThatApplies ==
    rip # Null =>
        LET in == rip.in  out == rip.out IN
        /\ out.threw = "none"
        /\ IF in.installPath \in in.disk
               THEN out.value = in.installPath /\ ~out.registryRead
           ELSE IF ~in.registry.error /\ in.registry.value \in in.disk
               THEN out.value = in.registry.value
           ELSE IF in.inDevelopmentEnvironment /\ in.game # "skyrim"
               THEN out.value = DevelopmentCompilersPath
           ELSE out.value = "null"

C11_Witness ==
    /\ rip # Null
    /\ rip.in.installPath \notin rip.in.disk
    /\ rip.in.registry.error
    /\ rip.in.disk # {}
    /\ rip.in.inDevelopmentEnvironment
    /\ rip.in.game = "skyrim"
    /\ rip.out.threw = "none"
    /\ rip.out.value = "null"

\* The client's start is invoked only when it reports needsStart() at that call,
\* its stop only when it reports needsStop() at that call.
InvokedOnlyWhenNeeded ==
    /\ lc'.startCount # lc.startCount =>
          /\ lc'.startCount = lc.startCount + 1
          /\ needsStart(lc)
    /\ lc'.stopCount # lc.stopCount =>
          /\ lc'.stopCount = lc.stopCount + 1
          /\ needsStop(lc)

\* stop() or dispose() on a client that was never started does not invoke stop.
NoStopBeforeStart == lc.startCount = 0 => lc'.stopCount = lc.stopCount

\* C12 (as stated): start and stop of the client are invoked only when it reports
\* needsStart() / needsStop(); a start() issued after an earlier start() has
\* completed never starts the client again; stop() and dispose() on a client never
\* started do not invoke stop.
C12_NoSecondStart ==
    [][/\ InvokedOnlyWhenNeeded
       /\ NoStopBeforeStart
       /\ lc.startCompleted => lc'.startCount = lc.startCount]_vars

\* C12 (amended): as above, but a start() issued after an earlier start() has
\* completed does not start the client again as long as the client has not been
\* stopped in between.
C12_NoSecondStartUnlessStopped ==
    [][/\ InvokedOnlyWhenNeeded
       /\ NoStopBeforeStart
       /\ (lc.startCompleted /\ ~lc.stoppedSince) => lc'.startCount = lc.startCount]_vars

C12_Witness ==
    /\ lc.startCalls = 2
    /\ lc.startCount = 1
    /\ lc.stopCalls = 1
    /\ lc.stopCount = 0
    /\ lc.state = "Running"
    /\ lc.fsWatcherDisposed
====
